---- MODULE Spec2Model ----
(***************************************************************************)
(* Old Man Touchy (OMT.py): a batch of nmap scans read from a JSON         *)
(* configuration, run on a ThreadPoolExecutor of at most four workers,     *)
(* each worker running run_nmap for one scan entry, the main thread        *)
(* collecting the futures with as_completed and printing a summary.        *)
(*                                                                         *)
(* The main thread is modelled by pc, every scan entry j by jpc[j] (the    *)
(* position of the worker that runs run_nmap for it) and the external      *)
(* nmap process of entry j by proc[j].  File names are sequences of        *)
(* characters so that pathlib's with_suffix is computed, not assumed.      *)
(***************************************************************************)
EXTENDS Integers, Sequences, FiniteSets, TLC

(* ------------------------------ bounds --------------------------------- *)

\* longest "scans" list of the general specification
MaxJobs == 2

\* number of scan entries of the pool specification (more than the ceiling)
PoolJobs == 5

\* the wall clock is read at seconds 0 .. MaxClock
MaxClock == 1

\* longest "args" string of the command specification
MaxArgLen == 4

\* the most chunks of stderr output a process of the pipe specification writes
MaxStderr == 3

\* the number of chunks the operating system's pipe buffer holds (the unit
\* of MaxStderr is chosen so that the buffer is smaller)
PipeCapacity == 2

\* the most pieces a line of stdout of the filter specification is made of
MaxChunks == 2

(* ------------------------- program constants --------------------------- *)

\* min(4, len(scans)): the fixed ceiling of the worker pool
Ceiling == 4

\* scan.get("name", "scan"): the default job name
DefaultName == <<"s", "c", "a", "n">>

(* ----------------------------- inputs ---------------------------------- *)

NameA == <<"a">>

\* the entries a "scans" list is drawn from: a named entry, an entry with
\* no "name" key, an entry with no "target" key, an entry whose target is ""
ScanEntries ==
    { [hasName |-> TRUE,  name |-> NameA, hasTarget |-> TRUE,  target |-> <<"h">>],
      [hasName |-> FALSE, name |-> <<>>,  hasTarget |-> TRUE,  target |-> <<"h">>],
      [hasName |-> TRUE,  name |-> NameA, hasTarget |-> FALSE, target |-> <<>>],
      [hasName |-> TRUE,  name |-> NameA, hasTarget |-> TRUE,  target |-> <<>>] }

\* the flag string "-sV"
ArgsSV == <<"-", "s", "V">>

\* the values of the "args" key: absent, empty, a flag string
ArgValues ==
    { [has |-> FALSE, val |-> <<>>], [has |-> TRUE, val |-> <<>>],
      [has |-> TRUE, val |-> ArgsSV] }

\* the values of the "timeout" key: absent, or a number of seconds
TimeoutValues == { [has |-> FALSE, secs |-> 0], [has |-> TRUE, secs |-> 1] }

\* how the external process may end: its exit code, the text it has written
\* to stderr, and whether it has written <output_file>.xml
ChildBehaviours ==
    { [code |-> 0, stderr |-> "",     xml |-> TRUE],
      [code |-> 0, stderr |-> "warn", xml |-> FALSE],
      [code |-> 1, stderr |-> "boom", xml |-> FALSE] }

\* what every nmap process of a batch writes besides its result: the number
\* of chunks of stderr output, and its stdout lines
QuietChild == [stderrChunks |-> 0, stdoutLines |-> <<>>]

\* what result.stderr is in the returned dictionary: the pipe's file object
StderrStream == "<_io.TextIOWrapper>"

(* ----------------------------- helpers --------------------------------- *)

Min(a, b) == IF a < b THEN a ELSE b

Digit(t) == <<"0", "1", "2", "3", "4", "5", "6", "7", "8", "9">>[(t % 10) + 1]

\* datetime.now().strftime("%Y%m%d_%H%M%S"): one-second resolution, no dot
Strftime(t) == IF t < 10 THEN <<Digit(t)>> ELSE <<Digit(t \div 10), Digit(t)>>

\* scan.get("name", "scan")
GetName(scan) == IF scan.hasName THEN scan.name ELSE DefaultName

\* "if not target": the key is absent (None) or the string is empty
NotTarget(scan) == ~scan.hasTarget \/ scan.target = <<>>

\* output_dir / f"{name}_{timestamp}"  (the directory part is the same for
\* every path and is left out)
OutputFile(name, t) == name \o <<"_">> \o Strftime(t)

\* the characters str.split() splits at (some of them)
Whitespace == { " ", "\t", "\n" }

\* str.split() without argument, from position i on, cur being the token
\* collected so far: runs of whitespace separate, empty tokens are dropped
RECURSIVE SplitFrom(_, _, _)
SplitFrom(str, i, cur) ==
    IF i > Len(str) THEN (IF cur = <<>> THEN <<>> ELSE <<cur>>)
    ELSE IF str[i] \in Whitespace
         THEN (IF cur = <<>> THEN <<>> ELSE <<cur>>) \o SplitFrom(str, i + 1, <<>>)
         ELSE SplitFrom(str, i + 1, Append(cur, str[i]))

\* str.split(" "): every single blank separates, empty tokens are kept
RECURSIVE SplitAtBlank(_, _, _)
SplitAtBlank(str, i, cur) ==
    IF i > Len(str) THEN <<cur>>
    ELSE IF str[i] = " "
         THEN <<cur>> \o SplitAtBlank(str, i + 1, <<>>)
         ELSE SplitAtBlank(str, i + 1, Append(cur, str[i]))

\* Split with str.split(" ") in the place of str.split()
Split_AtBlank(str) == SplitAtBlank(str, 1, <<>>)

\* args.split()
Split(str) == SplitFrom(str, 1, <<>>)

\* cmd = ["nmap", *args.split(), target, "-oA", str(output_file)]
BuildCmd(argstr, target, output_file) ==
    << <<"n", "m", "a", "p">> >> \o Split(argstr)
        \o << target, <<"-", "o", "A">>, output_file >>

RECURSIVE LastDot(_, _)
LastDot(s, i) == IF i = 0 THEN 0 ELSE IF s[i] = "." THEN i ELSE LastDot(s, i - 1)

\* PurePath.suffix: from the last dot, unless the name starts or ends there
SuffixStart(s) ==
    LET i == LastDot(s, Len(s))
    IN  IF i > 1 /\ i < Len(s) THEN i ELSE 0

\* output_file.with_suffix(".xml"): replaces the existing suffix, if any
WithSuffixXml(s) ==
    LET i == SuffixStart(s)
    IN  (IF i = 0 THEN s ELSE SubSeq(s, 1, i - 1)) \o <<".", "x", "m", "l">>

\* the XML file nmap itself writes for "-oA <output_file>"
NmapXmlFile(base) == base \o <<".", "x", "m", "l">>

\* output_dir / f"{name}_latest.xml"
BackupFile(name) == name \o <<"_", "l", "a", "t", "e", "s", "t", ".", "x", "m", "l">>

\* the file system under output_dir: a set of <<path, content>>, one per path
FileExists(fs, p) == \E f \in fs : f[1] = p
ReadFile(fs, p) == (CHOOSE f \in fs : f[1] = p)[2]
WriteFile(fs, p, c) == { f \in fs : f[1] # p } \cup { <<p, c>> }

(* ------------------------------ state ---------------------------------- *)

VARIABLES
    config,     \* the loaded JSON: scans (with hasScans), args, timeout
    pc,         \* the main thread's position in main()
    jpc,        \* per scan entry: position of its future / of run_nmap
    proc,       \* per scan entry: the external process started for it
    tstamp,     \* per scan entry: the second read at line 77
    outcome,    \* per scan entry: the dictionary run_nmap returned
    files,      \* the files under output_dir
    now,        \* the wall clock when it was last read, in seconds
    yielded,    \* the futures as_completed has yielded so far, in order
    results,    \* the list "results" of main()
    stdoutLog   \* what has been printed: the error of the checks, per scan
                \* entry the number of start and of completion status
                \* lines, the live progress lines, the summary

vars == <<config, pc, jpc, proc, tstamp, outcome, files, now, yielded,
          results, stdoutLog>>

\* config.get("scans", []), config.get("args"), config.get("timeout")
scans == IF config.hasScans THEN config.scans ELSE <<>>
args == config.args
timeout == config.timeout

Jobs == 1 .. Len(scans)

\* errLeft: chunks the process has still to write to stderr; errPipe: chunks
\* in the stderr pipe, which run_nmap never reads; unread: the stdout lines
\* run_nmap has not read yet
NoProc ==
    [state |-> "none", cmd |-> <<>>, code |-> 0, stderr |-> "", late |-> FALSE,
     errLeft |-> 0, errPipe |-> 0, unread |-> <<>>]
NoOutcome ==
    [name |-> <<>>, status |-> "none", output |-> <<>>, stderr |-> "", error |-> ""]

\* every list of at most n scan entries
ScanLists(n) == UNION { [1 .. k -> ScanEntries] : k \in 0 .. n }

StartState(cfg) ==
    /\ config = cfg
    /\ pc = "loaded"
    /\ jpc = [j \in 1 .. Len(cfg.scans) |-> "unsubmitted"]
    /\ proc = [j \in 1 .. Len(cfg.scans) |-> NoProc]
    /\ tstamp = [j \in 1 .. Len(cfg.scans) |-> 0]
    /\ outcome = [j \in 1 .. Len(cfg.scans) |-> NoOutcome]
    /\ files = {}
    /\ now = 0
    /\ yielded = <<>>
    /\ results = <<>>
    /\ stdoutLog = [error |-> "", summary |-> <<>>, finished |-> FALSE,
                    start |-> [j \in 1 .. Len(cfg.scans) |-> 0],
                    done |-> [j \in 1 .. Len(cfg.scans) |-> 0],
                    live |-> <<>>]

\* main() after load_config: any configuration with or without each key
Init ==
    \E sc \in ScanLists(MaxJobs), hs \in BOOLEAN, a \in ArgValues, t \in TimeoutValues :
        /\ (~hs => sc = <<>>)
        /\ StartState([hasScans |-> hs, scans |-> sc, args |-> a, timeout |-> t,
                       child |-> QuietChild])

(* ------------------------- main(): the checks -------------------------- *)

\* "if not scans": sys.exit(1)
RejectNoScans ==
    /\ pc = "loaded"
    /\ scans = <<>>
    /\ pc' = "exit1"
    /\ stdoutLog' = [stdoutLog EXCEPT !.error = "[!] No scans defined in JSON"]
    /\ UNCHANGED <<config, jpc, proc, tstamp, outcome, files, now, yielded, results>>

\* "if not args": sys.exit(1)
RejectNoArgs ==
    /\ pc = "loaded"
    /\ scans # <<>>
    /\ (~args.has \/ args.val = <<>>)
    /\ pc' = "exit1"
    /\ stdoutLog' = [stdoutLog EXCEPT !.error = "[!] No args defined in JSON"]
    /\ UNCHANGED <<config, jpc, proc, tstamp, outcome, files, now, yielded, results>>

\* OpenPool without the check of "args"
OpenPool_ArgsUnchecked ==
    /\ pc = "loaded"
    /\ scans # <<>>
    /\ pc' = "submit"
    /\ results' = <<>>
    /\ UNCHANGED <<config, jpc, proc, tstamp, outcome, files, now, yielded, stdoutLog>>

\* results = []; the with statement creates the executor
OpenPool ==
    /\ pc = "loaded"
    /\ scans # <<>>
    /\ args.has /\ args.val # <<>>
    /\ pc' = "submit"
    /\ results' = <<>>
    /\ UNCHANGED <<config, jpc, proc, tstamp, outcome, files, now, yielded, stdoutLog>>

(* --------------------------- the worker pool --------------------------- *)

\* max_workers without the ceiling: one thread per scan entry
MaxWorkers_Uncapped == Len(scans)

\* max_workers = min(4, len(scans))
MaxWorkers == Min(Ceiling, Len(scans))

\* the scan entries whose run_nmap a worker thread is executing
InProgress == { j \in Jobs : jpc[j] = "reading" }

\* the future of entry j is done: run_nmap returned or raised
FutureDone(j) == jpc[j] \in { "returned", "raised" }

\* executor.submit for the next entry of the list comprehension
Submit ==
    /\ pc = "submit"
    /\ \E j \in Jobs :
        /\ jpc[j] = "unsubmitted"
        /\ \A i \in Jobs : i < j => jpc[i] # "unsubmitted"
        /\ jpc' = [jpc EXCEPT ![j] = "queued"]
        /\ pc' = IF j = Len(scans) THEN "collect" ELSE "submit"
    /\ UNCHANGED <<config, proc, tstamp, outcome, files, now, yielded, results, stdoutLog>>

\* Dequeue by a pool that runs one entry at a time
Dequeue_Serial(j) ==
    /\ jpc[j] = "queued"
    /\ \A i \in Jobs : i < j => jpc[i] # "queued"
    /\ InProgress = {}

\* a worker thread takes entry j: it is the head of the executor's queue,
\* and fewer than max_workers threads are busy
Dequeue(j) ==
    /\ jpc[j] = "queued"
    /\ \A i \in Jobs : i < j => jpc[i] # "queued"
    /\ Cardinality(InProgress) < MaxWorkers

(* ------------------------------ run_nmap ------------------------------- *)

\* "if not target: raise ValueError": the future holds the exception
RaiseMissingTarget(j) ==
    /\ Dequeue(j)
    /\ NotTarget(scans[j])
    /\ jpc' = [jpc EXCEPT ![j] = "raised"]
    /\ UNCHANGED <<config, pc, proc, tstamp, outcome, files, now, yielded, results, stdoutLog>>

\* datetime.now(): the clock has not gone back since it was last read
ReadClock(j) ==
    /\ now' \in { t \in { now, now + 1 } : t <= MaxClock }
    /\ tstamp' = [tstamp EXCEPT ![j] = now']

\* the timestamp is read, the command built, "[+] Starting scan: <name>"
\* printed, and Popen starts the process
SpawnProcess(j) ==
    /\ Dequeue(j)
    /\ ~NotTarget(scans[j])
    /\ ReadClock(j)
    /\ proc' = [proc EXCEPT ![j] =
                   [NoProc EXCEPT !.state = "running",
                                  !.errLeft = config.child.stderrChunks,
                                  !.unread = config.child.stdoutLines,
                                  !.cmd = BuildCmd(args.val, scans[j].target,
                                                   OutputFile(GetName(scans[j]), tstamp'[j]))]]
    /\ jpc' = [jpc EXCEPT ![j] = "reading"]
    /\ stdoutLog' = [stdoutLog EXCEPT !.start[j] = @ + 1]
    /\ UNCHANGED <<config, pc, outcome, files, yielded, results>>

ExceptionOutcome(name, msg) ==
    [name |-> name, status |-> "exception", output |-> <<>>, stderr |-> "", error |-> msg]

\* the start line is printed, then Popen raises (nmap is not installed,
\* ...): "except Exception"
SpawnFails(j) ==
    /\ Dequeue(j)
    /\ ~NotTarget(scans[j])
    /\ ReadClock(j)
    /\ outcome' = [outcome EXCEPT ![j] =
                      ExceptionOutcome(GetName(scans[j]), "No such file or directory: 'nmap'")]
    /\ jpc' = [jpc EXCEPT ![j] = "returned"]
    /\ stdoutLog' = [stdoutLog EXCEPT !.start[j] = @ + 1]
    /\ UNCHANGED <<config, pc, proc, files, yielded, results>>

\* timeout seconds have passed since the launch of the process of entry j
\* and it is still running; nothing in run_nmap watches the deadline
DeadlinePasses(j) ==
    /\ timeout.has
    /\ jpc[j] = "reading"
    /\ proc[j].state = "running"
    /\ ~proc[j].late
    /\ proc' = [proc EXCEPT ![j].late = TRUE]
    /\ UNCHANGED <<config, pc, jpc, tstamp, outcome, files, now, yielded, results, stdoutLog>>

\* the external process writes a chunk to stderr: write() blocks while the
\* pipe is full, and nothing reads the pipe
ChildWritesStderr(j) ==
    /\ jpc[j] = "reading"
    /\ proc[j].state = "running"
    /\ proc[j].errLeft > 0
    /\ proc[j].errPipe < PipeCapacity
    /\ proc' = [proc EXCEPT ![j].errLeft = @ - 1, ![j].errPipe = @ + 1]
    /\ UNCHANGED <<config, pc, jpc, tstamp, outcome, files, now, yielded, results, stdoutLog>>

\* the external process ends on its own in the way b, having written all
\* its output (a process whose reader has given up is not followed any
\* further)
ChildEnds(j, b) ==
    /\ jpc[j] = "reading"
    /\ proc[j].state = "running"
    /\ proc[j].errLeft = 0
    /\ proc' = [proc EXCEPT ![j] = [proc[j] EXCEPT !.state = "exited", !.code = b.code,
                                                    !.stderr = b.stderr]]
    /\ files' = IF b.xml
                THEN WriteFile(files, NmapXmlFile(OutputFile(GetName(scans[j]), tstamp[j])), j)
                ELSE files
    /\ UNCHANGED <<config, pc, jpc, tstamp, outcome, now, yielded, results, stdoutLog>>

\* reading a line of stdout raises (undecodable bytes, I/O error)
StdoutReadError(j) ==
    /\ jpc[j] = "reading"
    /\ proc[j].state = "running"
    /\ outcome' = [outcome EXCEPT ![j] =
                      ExceptionOutcome(GetName(scans[j]), "can't decode byte")]
    /\ jpc' = [jpc EXCEPT ![j] = "returned"]
    /\ UNCHANGED <<config, pc, proc, tstamp, files, now, yielded, results, stdoutLog>>

\* stdout is at end of file and wait() returns: the process has exited
Waited(j) == jpc[j] = "reading" /\ proc[j].state = "exited" /\ proc[j].unread = <<>>

\* "except subprocess.TimeoutExpired": the dictionary of a timed-out scan
\* (nothing in the try block raises TimeoutExpired: Popen takes no timeout
\* and wait() is called without one)
TimeoutOutcome(name, secs) ==
    [name |-> name, status |-> "timeout", output |-> <<>>, stderr |-> "",
     error |-> "Scan exceeded " \o ToString(secs) \o "s"]

\* ReturnError that also refreshes the latest copy of the entry
ReturnError_CopiesLatest(j) ==
    /\ Waited(j)
    /\ proc[j].code # 0
    /\ files' = WriteFile(files, BackupFile(GetName(scans[j])), j)
    /\ outcome' = [outcome EXCEPT ![j] =
                      [name |-> GetName(scans[j]), status |-> "error", output |-> <<>>,
                       stderr |-> StderrStream, error |-> ""]]
    /\ jpc' = [jpc EXCEPT ![j] = "returned"]
    /\ UNCHANGED <<config, pc, proc, tstamp, now, yielded, results, stdoutLog>>

\* returncode != 0
ReturnError(j) ==
    /\ Waited(j)
    /\ proc[j].code # 0
    /\ outcome' = [outcome EXCEPT ![j] =
                      [name |-> GetName(scans[j]), status |-> "error", output |-> <<>>,
                       stderr |-> StderrStream, error |-> ""]]
    /\ jpc' = [jpc EXCEPT ![j] = "returned"]
    /\ UNCHANGED <<config, pc, proc, tstamp, files, now, yielded, results, stdoutLog>>

\* returncode == 0: copy2 of the XML file to <name>_latest.xml, then success
ReturnSuccess(j) ==
    LET name == GetName(scans[j])
        output_file == OutputFile(name, tstamp[j])
        xml_file == WithSuffixXml(output_file)
    IN  /\ Waited(j)
        /\ proc[j].code = 0
        /\ FileExists(files, xml_file)
        /\ files' = WriteFile(files, BackupFile(name), ReadFile(files, xml_file))
        /\ outcome' = [outcome EXCEPT ![j] =
                          [name |-> name, status |-> "success", output |-> output_file,
                           stderr |-> "", error |-> ""]]
        /\ jpc' = [jpc EXCEPT ![j] = "returned"]
        /\ UNCHANGED <<config, pc, proc, tstamp, now, yielded, results, stdoutLog>>

\* ReturnCopyFailed with the failed copy ignored: success is returned
ReturnCopyFailed_Ignored(j) ==
    LET name == GetName(scans[j])
        output_file == OutputFile(name, tstamp[j])
    IN  /\ Waited(j)
        /\ proc[j].code = 0
        /\ ~FileExists(files, WithSuffixXml(output_file))
        /\ outcome' = [outcome EXCEPT ![j] =
                          [name |-> name, status |-> "success", output |-> output_file,
                           stderr |-> "", error |-> ""]]
        /\ jpc' = [jpc EXCEPT ![j] = "returned"]
        /\ UNCHANGED <<config, pc, proc, tstamp, files, now, yielded, results, stdoutLog>>

\* returncode == 0 but copy2 raises FileNotFoundError: "except Exception"
ReturnCopyFailed(j) ==
    LET name == GetName(scans[j])
        xml_file == WithSuffixXml(OutputFile(name, tstamp[j]))
    IN  /\ Waited(j)
        /\ proc[j].code = 0
        /\ ~FileExists(files, xml_file)
        /\ outcome' = [outcome EXCEPT ![j] =
                          ExceptionOutcome(name, "No such file or directory")]
        /\ jpc' = [jpc EXCEPT ![j] = "returned"]
        /\ UNCHANGED <<config, pc, proc, tstamp, files, now, yielded, results, stdoutLog>>

(* -------------------- main(): collecting the futures ------------------- *)

Yielded(j) == \E k \in 1 .. Len(yielded) : yielded[k] = j

\* Collect with the summary reached from inside the loop body
Collect_SummaryInLoop(j) ==
    /\ pc = "collect"
    /\ jpc[j] = "returned"
    /\ ~Yielded(j)
    /\ yielded' = Append(yielded, j)
    /\ results' = Append(results, outcome[j])
    /\ stdoutLog' = [stdoutLog EXCEPT !.done[j] = @ + 1]
    /\ pc' = "summary"
    /\ UNCHANGED <<config, jpc, proc, tstamp, outcome, files, now>>

\* as_completed yields a finished future; result() returns; results.append;
\* the completion line of the entry ("completed" or "failed") is printed
Collect(j) ==
    /\ pc = "collect"
    /\ jpc[j] = "returned"
    /\ ~Yielded(j)
    /\ yielded' = Append(yielded, j)
    /\ results' = Append(results, outcome[j])
    /\ stdoutLog' = [stdoutLog EXCEPT !.done[j] = @ + 1]
    /\ UNCHANGED <<config, pc, jpc, proc, tstamp, outcome, files, now>>

\* as_completed yields a future whose result() re-raises the ValueError:
\* the exception leaves the for loop
CollectRaises(j) ==
    /\ pc = "collect"
    /\ jpc[j] = "raised"
    /\ ~Yielded(j)
    /\ yielded' = Append(yielded, j)
    /\ pc' = "unwind"
    /\ UNCHANGED <<config, jpc, proc, tstamp, outcome, files, now, results, stdoutLog>>

\* executor.__exit__: shutdown(wait=True) returns when every submitted
\* entry has been run to its end
PoolJoined == \A j \in Jobs : FutureDone(j)

\* as_completed is exhausted and the with block is left
ExitPool ==
    /\ pc = "collect"
    /\ \A j \in Jobs : Yielded(j)
    /\ PoolJoined
    /\ pc' = "summary"
    /\ UNCHANGED <<config, jpc, proc, tstamp, outcome, files, now, yielded, results, stdoutLog>>

\* UnwindPool by an executor that does not wait for its workers
UnwindPool_NoJoin ==
    /\ pc = "unwind"
    /\ pc' = "crashed"
    /\ UNCHANGED <<config, jpc, proc, tstamp, outcome, files, now, yielded, results, stdoutLog>>

\* the with block is left by the exception, which then ends main()
UnwindPool ==
    /\ pc = "unwind"
    /\ PoolJoined
    /\ pc' = "crashed"
    /\ UNCHANGED <<config, jpc, proc, tstamp, outcome, files, now, yielded, results, stdoutLog>>

\* "=== Summary ===", one line per element of results, "[+] All scans finished"
PrintSummary ==
    /\ pc = "summary"
    /\ stdoutLog' = [stdoutLog EXCEPT
                        !.summary = [k \in 1 .. Len(results) |->
                                        <<results[k].name, results[k].status>>],
                        !.finished = TRUE]
    /\ pc' = "done"
    /\ UNCHANGED <<config, jpc, proc, tstamp, outcome, files, now, yielded, results>>

Next ==
    \/ RejectNoScans
    \/ RejectNoArgs
    \/ OpenPool
    \/ Submit
    \/ \E j \in Jobs : RaiseMissingTarget(j)
    \/ \E j \in Jobs : SpawnProcess(j)
    \/ \E j \in Jobs : SpawnFails(j)
    \/ \E j \in Jobs : DeadlinePasses(j)
    \/ \E j \in Jobs, b \in ChildBehaviours : ChildEnds(j, b)
    \/ \E j \in Jobs : StdoutReadError(j)
    \/ \E j \in Jobs : ReturnError(j)
    \/ \E j \in Jobs : ReturnSuccess(j)
    \/ \E j \in Jobs : ReturnCopyFailed(j)
    \/ \E j \in Jobs : Collect(j)
    \/ \E j \in Jobs : CollectRaises(j)
    \/ ExitPool
    \/ UnwindPool
    \/ PrintSummary

Spec == Init /\ [][Next]_vars

(* ------------------- the pool with more work than slots ---------------- *)

\* a batch of up to PoolJobs well-formed entries, all launched within one
\* second, whose processes all end with exit code 1 (the batch that leaves
\* no files behind)
PoolEntry == [hasName |-> TRUE, name |-> NameA, hasTarget |-> TRUE, target |-> <<"h">>]
FailingExit == [code |-> 1, stderr |-> "boom", xml |-> FALSE]

InitPool ==
    \E n \in 1 .. PoolJobs :
        /\ StartState([hasScans |-> TRUE, scans |-> [j \in 1 .. n |-> PoolEntry],
                       args |-> [has |-> TRUE, val |-> ArgsSV],
                       timeout |-> [has |-> FALSE, secs |-> 0],
                       child |-> QuietChild])

NextPool ==
    \/ OpenPool
    \/ Submit
    \/ \E j \in Jobs : SpawnProcess(j)
    \/ \E j \in Jobs : ChildEnds(j, FailingExit)
    \/ \E j \in Jobs : ReturnError(j)
    \/ \E j \in Jobs : Collect(j)
    \/ ExitPool
    \/ PrintSummary

SpecPool == InitPool /\ [][NextPool]_vars

\* a worker thread that can take an entry from the queue does so
SpecPoolFair == SpecPool /\ WF_vars(\E j \in Jobs : SpawnProcess(j))

(* ------------------------------ claims --------------------------------- *)

\* main() has ended after the checks were passed
MainEnded == pc \in { "done", "crashed" }

\* the number of positions of results that hold the outcome of entry j
TimesAppended(j) ==
    Cardinality({ k \in 1 .. Len(results) : k <= Len(yielded) /\ yielded[k] = j })

\* C1: a run that passes the checks with N scan entries ends in its summary
\* with exactly N outcomes in results, one per submitted entry, whatever the
\* jobs do (missing target included).
C1_OneOutcomePerJob ==
    MainEnded =>
        /\ pc = "done"
        /\ Len(results) = Len(scans)
        /\ \A j \in Jobs : TimesAppended(j) = 1

\* C2: at most min(4, number of scan entries) run_nmap calls are executing
\* at the same time.
C2_AtMostFourInProgress ==
    Cardinality(InProgress) <= Min(Ceiling, Len(scans))

\* C2 witness: five entries, four of them executing, the fifth still queued
C2_Witness ==
    /\ Len(scans) = 5
    /\ Cardinality(InProgress) = 4
    /\ \E j \in Jobs : jpc[j] = "queued"

\* C3: run_nmap never raises: for every scan entry, also one whose target is
\* missing or empty, it returns an outcome; an entry without target launches
\* no process and yields an outcome of status exception.
C3_RunNmapNeverRaises ==
    \A j \in Jobs :
        /\ jpc[j] # "raised"
        /\ (NotTarget(scans[j]) /\ FutureDone(j)) =>
              /\ outcome[j].status = "exception"
              /\ proc[j].state = "none"

\* C4: with a timeout configured, a job whose process was still running when
\* the timeout had passed gets the outcome of status timeout whose message
\* states the limit, and its process is not running once the outcome exists.
C4_TimeoutEnforced ==
    \A j \in Jobs :
        (timeout.has /\ proc[j].late /\ jpc[j] = "returned") =>
            /\ outcome[j] = TimeoutOutcome(GetName(scans[j]), timeout.secs)
            /\ proc[j].state # "running"

\* C5: once scheduling has started a failing job does not abort the batch:
\* also when future.result() raises, every other future is still collected
\* and the run ends with the summary of every job and the completion line.
C5_BatchNeverAborted ==
    /\ pc # "crashed"
    /\ (pc = "done" =>
          /\ stdoutLog.finished
          /\ Len(stdoutLog.summary) = Len(scans))
    /\ (pc \in { "unwind", "summary", "done" } =>
          \A j \in Jobs : jpc[j] = "returned" => Yielded(j))

\* C6: exit code zero (and a successful copy) yields status success with the
\* per-job output path; a non-zero exit code yields status error whose
\* stderr payload is exactly the text the process wrote to stderr.
C6_ExitCodeClassification ==
    \A j \in Jobs :
        (jpc[j] = "returned" /\ proc[j].state = "exited") =>
            /\ (proc[j].code = 0 /\ outcome[j].status # "exception") =>
                  /\ outcome[j].status = "success"
                  /\ outcome[j].output = OutputFile(GetName(scans[j]), tstamp[j])
            /\ (proc[j].code # 0) =>
                  /\ outcome[j].status = "error"
                  /\ outcome[j].stderr = proc[j].stderr

\* a process has been started for entry j
Launched(j) == proc[j].state # "none"

\* C7: two launched jobs never write the same timestamped output path, also
\* when they have the same name and start in the same second; they share
\* only <name>_latest.xml, which after both succeeded holds the XML output
\* of one of the two.
C7_DistinctOutputPaths ==
    \A i, j \in Jobs :
        (i # j /\ Launched(i) /\ Launched(j)) =>
            /\ OutputFile(GetName(scans[i]), tstamp[i]) # OutputFile(GetName(scans[j]), tstamp[j])
            /\ (/\ GetName(scans[i]) = GetName(scans[j])
                /\ outcome[i].status = "success"
                /\ outcome[j].status = "success") =>
                  /\ FileExists(files, BackupFile(GetName(scans[i])))
                  /\ ReadFile(files, BackupFile(GetName(scans[i]))) \in { i, j }

\* C8: the summary and "[+] All scans finished" are reached only when every
\* submitted entry has finished executing and no worker is still reading
\* from or waiting for an external process.
C8_NoEarlyCompletion ==
    (pc \in { "summary", "done" } \/ stdoutLog.finished) =>
        /\ \A j \in Jobs : FutureDone(j)
        /\ InProgress = {}

\* C8 witness: the completion line is printed for a batch of two entries
\* whose processes both ran
C8_Witness ==
    /\ stdoutLog.finished
    /\ Len(scans) = 2
    /\ \A j \in Jobs : proc[j].state = "exited"

\* "not scans" or "not args"
BadConfig == scans = <<>> \/ ~args.has \/ args.val = <<>>

\* C9: with a missing or empty job list, or a missing or empty argument
\* string, the run only goes to its failure exit: no pool is created, no
\* entry is submitted, no process is launched, nothing is written.
C9_PreconditionAbort ==
    BadConfig =>
        /\ pc \in { "loaded", "exit1" }
        /\ \A j \in Jobs : jpc[j] = "unsubmitted" /\ ~Launched(j)
        /\ files = {}
        /\ results = <<>>

\* C9 witness: the failure exit is taken for a list of two entries whose
\* configuration has an empty argument string
C9_Witness ==
    /\ pc = "exit1"
    /\ Len(scans) = 2
    /\ args.has /\ args.val = <<>>
    /\ stdoutLog.error = "[!] No args defined in JSON"

\* C10: every outcome a worker returned is in results exactly once when the
\* run ends, never more than once before, only after its job finished, and
\* the summary lists the outcomes in the order of results.
C10_EachOutcomeAppendedOnce ==
    /\ \A j \in Jobs : TimesAppended(j) <= 1
    /\ \A k \in 1 .. Len(results) :
          /\ jpc[yielded[k]] = "returned"
          /\ results[k] = outcome[yielded[k]]
    /\ (MainEnded => \A j \in Jobs : jpc[j] = "returned" => TimesAppended(j) = 1)
    /\ (stdoutLog.finished =>
          stdoutLog.summary = [k \in 1 .. Len(results) |->
                                  <<results[k].name, results[k].status>>])


\* run_nmap returns for entry j in this step
Returns(j) == jpc[j] # "returned" /\ jpc'[j] = "returned"

\* C11: when run_nmap returns after a failure of the launch (no process),
\* of the streaming (the process is still running) or of the copy to the
\* latest path (exit code zero, XML file missing), the outcome has status
\* exception and carries the error's description; it is never success.
C11_FailuresBecomeExceptions ==
    [][\A j \in Jobs :
          (/\ Returns(j)
           /\ \/ proc[j].state \in { "none", "running" }
              \/ /\ proc[j].state = "exited"
                 /\ proc[j].code = 0
                 /\ ~FileExists(files, WithSuffixXml(OutputFile(GetName(scans[j]), tstamp'[j]))))
          => /\ outcome'[j].status = "exception"
             /\ outcome'[j].error # ""
             /\ outcome'[j].name = GetName(scans[j])]_vars

\* C11 witness: a process exited with code zero, the copy failed, and the
\* outcome is an exception carrying the description
C11_Witness ==
    \E j \in Jobs :
        /\ jpc[j] = "returned"
        /\ proc[j].state = "exited" /\ proc[j].code = 0
        /\ outcome[j].status = "exception"
        /\ outcome[j].error = "No such file or directory"


(* ------------------- processes that write to stderr -------------------- *)

\* a batch of well-formed entries whose processes write up to MaxStderr
\* chunks to stderr before they end
InitPipe ==
    \E n \in 1 .. MaxJobs, c \in 0 .. MaxStderr :
        StartState([hasScans |-> TRUE, scans |-> [j \in 1 .. n |-> PoolEntry],
                    args |-> [has |-> TRUE, val |-> ArgsSV],
                    timeout |-> [has |-> FALSE, secs |-> 0],
                    child |-> [stderrChunks |-> c, stdoutLines |-> <<>>]])

NextPipe ==
    \/ OpenPool
    \/ Submit
    \/ \E j \in Jobs : SpawnProcess(j)
    \/ \E j \in Jobs : ChildWritesStderr(j)
    \/ \E j \in Jobs, b \in ChildBehaviours : ChildEnds(j, b)
    \/ \E j \in Jobs : ReturnError(j)
    \/ \E j \in Jobs : ReturnSuccess(j)
    \/ \E j \in Jobs : ReturnCopyFailed(j)
    \/ \E j \in Jobs : Collect(j)
    \/ ExitPool
    \/ PrintSummary

SpecPipe == InitPipe /\ [][NextPipe]_vars

(* --------------------- the command line of one scan -------------------- *)

\* the characters an "args" string of the command specification is made of
ArgChars == { " ", "\t", "-", "s" }

\* every string of at most n of these characters
ArgStrings(n) == UNION { [1 .. k -> ArgChars] : k \in 0 .. n }

\* targets: a host, two hosts in one string, a string a shell would interpret
CmdTargets == { <<"h">>, <<"h", " ", "g">>, <<";", "x">>, <<"-", "o", "A">> }

\* one scan entry, any argument string, any of the targets
InitCmd ==
    \E a \in ArgStrings(MaxArgLen), t \in CmdTargets, n \in { TRUE, FALSE } :
        StartState([hasScans |-> TRUE,
                    scans |-> << [hasName |-> n, name |-> IF n THEN NameA ELSE <<>>,
                                  hasTarget |-> TRUE, target |-> t] >>,
                    args |-> [has |-> TRUE, val |-> a],
                    timeout |-> [has |-> FALSE, secs |-> 0],
                    child |-> QuietChild])

NextCmd ==
    \/ RejectNoArgs
    \/ OpenPool
    \/ Submit
    \/ \E j \in Jobs : SpawnProcess(j)

SpecCmd == InitCmd /\ [][NextCmd]_vars

\* the concatenation of the tokens toks[1 .. k]
RECURSIVE Concat(_, _)
Concat(toks, k) == IF k = 0 THEN <<>> ELSE Concat(toks, k - 1) \o toks[k]

\* str without its whitespace characters
RECURSIVE Squeeze(_, _)
Squeeze(str, k) ==
    IF k = 0 THEN <<>>
    ELSE Squeeze(str, k - 1) \o (IF str[k] \in Whitespace THEN <<>> ELSE <<str[k]>>)

\* the number of maximal runs of non-whitespace characters of str
Runs(str) ==
    Cardinality({ i \in 1 .. Len(str) :
                    /\ str[i] \notin Whitespace
                    /\ (i = 1 \/ str[i - 1] \in Whitespace) })

\* C12: the command of a launched job is "nmap", then the whitespace-split
\* tokens of the argument string in order (one per run of non-whitespace
\* characters, none empty, none holding whitespace, together the argument
\* string without its whitespace), then the target as one token, "-oA" and
\* the output path <name>_<timestamp>.
C12_CommandShape ==
    \A j \in Jobs :
        Launched(j) =>
            LET cmd == proc[j].cmd
                n == Len(cmd)
                flags == SubSeq(cmd, 2, n - 3)
            IN  /\ n >= 4
                /\ cmd[1] = <<"n", "m", "a", "p">>
                /\ cmd[n - 2] = scans[j].target
                /\ cmd[n - 1] = <<"-", "o", "A">>
                /\ cmd[n] = GetName(scans[j]) \o <<"_">> \o Strftime(tstamp[j])
                /\ Len(flags) = Runs(args.val)
                /\ \A k \in 1 .. Len(flags) :
                      /\ flags[k] # <<>>
                      /\ \A i \in 1 .. Len(flags[k]) : flags[k][i] \notin Whitespace
                /\ Concat(flags, Len(flags)) = Squeeze(args.val, Len(args.val))

\* C12 witness: a launched job whose argument string has two flags set
\* apart by two whitespace characters, and whose target holds a blank
C12_Witness ==
    \E j \in Jobs :
        /\ Launched(j)
        /\ args.val = <<"-", " ", "\t", "s">>
        /\ scans[j].target = <<"h", " ", "g">>
        /\ Len(proc[j].cmd) = 6


\* a worker thread begins run_nmap for entry j
StartJob(j) == RaiseMissingTarget(j) \/ SpawnProcess(j) \/ SpawnFails(j)

\* fewer than max_workers entries are executing
SlotFree == Cardinality(InProgress) < Min(Ceiling, Len(scans))

\* C13: whenever an entry is queued and fewer than the limit are executing,
\* the start of a queued entry is enabled, and under fair scheduling no
\* entry stays queued forever while a slot is free.
C13_WorkConserving ==
    /\ []((SlotFree /\ \E j \in Jobs : jpc[j] = "queued")
            => ENABLED (\E j \in Jobs : StartJob(j)))
    /\ \A j \in 1 .. PoolJobs :
          []<>~(j \in Jobs /\ jpc[j] = "queued" /\ SlotFree)

\* C13 witness: one of five entries has finished, three are executing and
\* the fifth is still queued with a slot free
C13_Witness ==
    /\ Len(scans) = 5
    /\ \E i \in Jobs : jpc[i] = "returned"
    /\ Cardinality(InProgress) = 3
    /\ \E j \in Jobs : jpc[j] = "queued"


\* the external process of entry j takes a step
ChildStep(j) == ChildWritesStderr(j) \/ \E b \in ChildBehaviours : ChildEnds(j, b)

\* C14: a worker never blocks forever on a process that writes a finite
\* amount to stdout and stderr and then exits, however much it writes to
\* stderr: while run_nmap reads from or waits for the running process, the
\* process can always take its next step (it is never stuck on a full pipe).
C14_NoPipeDeadlock ==
    \A j \in Jobs :
        (jpc[j] = "reading" /\ proc[j].state = "running") => ENABLED ChildStep(j)


\* C15: for every submitted entry exactly one start line and exactly one
\* completion line are printed by the end of the run, never more than one
\* before, and the completion line never without the start line before it.
C15_OneStartOneCompletionLine ==
    /\ \A j \in Jobs :
          /\ stdoutLog.start[j] <= 1
          /\ stdoutLog.done[j] <= 1
          /\ stdoutLog.done[j] = 1 => stdoutLog.start[j] = 1
    /\ MainEnded => \A j \in Jobs : stdoutLog.start[j] = 1 /\ stdoutLog.done[j] = 1


\* the files of fs whose path ends in "_latest.xml"
LatestFiles(fs) ==
    { f \in fs : /\ Len(f[1]) >= 11
                 /\ SubSeq(f[1], Len(f[1]) - 10, Len(f[1])) =
                       <<"_", "l", "a", "t", "e", "s", "t", ".", "x", "m", "l">> }

\* C16: the latest copy is written only by a job whose process exited with
\* code zero. A step in which run_nmap returns success is taken with the
\* process exited with code 0 and leaves at <name>_latest.xml the content the
\* job's XML path had; a step returning error, timeout or the exception of a
\* failed spawn leaves every latest file as it was; and no other step of the
\* program changes a latest file.
C16_LatestOnlyOnExitZero ==
    [][ /\ \A j \in Jobs :
              Returns(j) /\ outcome'[j].status = "success" =>
                 LET latest == GetName(scans[j]) \o
                                  <<"_", "l", "a", "t", "e", "s", "t", ".", "x", "m", "l">>
                     xml == NmapXmlFile(OutputFile(GetName(scans[j]), tstamp[j]))
                 IN  /\ proc[j].state = "exited" /\ proc[j].code = 0
                     /\ FileExists(files, xml)
                     /\ <<latest, ReadFile(files, xml)>> \in files'
        /\ \A j \in Jobs :
              /\ Returns(j)
              /\ \/ outcome'[j].status \in { "error", "timeout" }
                 \/ outcome'[j].status = "exception" /\ proc[j].state = "none"
              => LatestFiles(files') = LatestFiles(files)
        /\ LatestFiles(files') # LatestFiles(files) =>
              \E j \in Jobs : /\ Returns(j)
                              /\ outcome'[j].status = "success"
                              /\ proc[j].code = 0 ]_vars

\* a job has returned success with its latest copy in place, one has returned
\* error and one the exception of a failed spawn
C16_Witness ==
    \E j, k \in Jobs :
       /\ outcome[j].status = "success"
       /\ FileExists(files, BackupFile(GetName(scans[j])))
       /\ LatestFiles(files) # {}
       /\ \/ outcome[k].status = "error"
          \/ outcome[k].status = "exception" /\ proc[k].state = "none"


\* C17: when no timeout is configured, no job is forcibly terminated and none
\* yields a timeout outcome: a job has an outcome only once its process has
\* exited on its own, or when the process could not be spawned.
C17_NoTimeoutAwaitsExit ==
    ~timeout.has =>
       \A j \in Jobs :
          /\ proc[j].state \in { "none", "running", "exited" }
          /\ outcome[j].status # "timeout"
          /\ outcome[j].status # "none" =>
                \/ proc[j].state = "exited"
                \/ proc[j].state = "none" /\ outcome[j].status = "exception"


(* ---------------- run_nmap(): the filter of the live output ------------ *)

PROGRESS_PATTERNS ==
    { <<"S", "t", "a", "t", "s", ":">>, <<"T", "i", "m", "i", "n", "g", ":">>,
      <<"E", "T", "C", ":">> }

\* line.rstrip(): line without its trailing whitespace
RECURSIVE RStrip(_)
RStrip(line) ==
    IF line # <<>> /\ line[Len(line)] \in Whitespace
    THEN RStrip(SubSeq(line, 1, Len(line) - 1))
    ELSE line

\* StartsWith matching p anywhere in the line
StartsWith_Anywhere(line, p) ==
    \E i \in 1 .. Len(line) - Len(p) + 1 : SubSeq(line, i, i + Len(p) - 1) = p

\* line.startswith(p)
StartsWith(line, p) == Len(line) >= Len(p) /\ SubSeq(line, 1, Len(p)) = p

\* one turn of "for line in result.stdout": the next line is taken from the
\* pipe, stripped, and printed with the name of the scan if it starts with a
\* progress pattern
ReadLine(j) ==
    LET line == RStrip(Head(proc[j].unread))
    IN  /\ jpc[j] = "reading"
        /\ proc[j].unread # <<>>
        /\ proc' = [proc EXCEPT ![j].unread = Tail(@)]
        /\ stdoutLog' = IF \E p \in PROGRESS_PATTERNS : StartsWith(line, p)
                        THEN [stdoutLog EXCEPT
                                 !.live = Append(@, <<GetName(scans[j]), line>>)]
                        ELSE stdoutLog
        /\ UNCHANGED <<config, pc, jpc, tstamp, outcome, files, now, yielded, results>>

\* the pieces the lines of the filter specification are made of: the
\* patterns, a pattern without its colon, a blank and other text
LineChunks == PROGRESS_PATTERNS \cup { <<"E", "T", "C">>, <<" ">>, <<"x">> }

\* the lines of at most n pieces, each ended by its newline
Lines(n) ==
    { Concat(c, Len(c)) \o <<"\n">> : c \in UNION { [1 .. k -> LineChunks] : k \in 0 .. n } }

\* one scan whose process writes two lines to stdout
InitFilter ==
    \E l1, l2 \in Lines(MaxChunks) :
        StartState([hasScans |-> TRUE, scans |-> <<PoolEntry>>,
                    args |-> [has |-> TRUE, val |-> ArgsSV],
                    timeout |-> [has |-> FALSE, secs |-> 0],
                    child |-> [stderrChunks |-> 0, stdoutLines |-> <<l1, l2>>]])

NextFilter ==
    \/ OpenPool
    \/ Submit
    \/ \E j \in Jobs : SpawnProcess(j)
    \/ \E j \in Jobs : ReadLine(j)
    \/ \E j \in Jobs : ChildEnds(j, FailingExit)
    \/ \E j \in Jobs : ReturnError(j)
    \/ \E j \in Jobs : Collect(j)
    \/ ExitPool
    \/ PrintSummary

SpecFilter == InitFilter /\ [][NextFilter]_vars

\* C18: of the lines read so far from the stdout of the scan's process,
\* exactly those are in the live log that, with their trailing whitespace
\* removed, begin with "Stats:", "Timing:" or "ETC:"; they are there without
\* the trailing whitespace, in the order the process wrote them, each once.
C18_LiveOutputFilter ==
    \A j \in Jobs :
       LET emitted == config.child.stdoutLines
           nread == IF proc[j].state = "none" THEN 0
                    ELSE Len(emitted) - Len(proc[j].unread)
           blank == { " ", "\t", "\n" }
           Kept(l) == CHOOSE n \in 0 .. Len(l) :
                         /\ n = 0 \/ l[n] \notin blank
                         /\ \A i \in n + 1 .. Len(l) : l[i] \in blank
           Progress(l) ==
              \E p \in { <<"S", "t", "a", "t", "s", ":">>,
                         <<"T", "i", "m", "i", "n", "g", ":">>,
                         <<"E", "T", "C", ":">> } :
                 /\ Len(p) <= Kept(l)
                 /\ \A i \in 1 .. Len(p) : l[i] = p[i]
           shown == { i \in 1 .. nread : Progress(emitted[i]) }
       IN  /\ Len(stdoutLog.live) = Cardinality(shown)
           /\ \A i \in shown :
                 stdoutLog.live[Cardinality({ k \in shown : k <= i })] =
                    <<GetName(scans[j]), SubSeq(emitted[i], 1, Kept(emitted[i]))>>

\* both lines have been read: " ETC:" was not shown, "ETC: " was, as "ETC:"
C18_Witness ==
    /\ Jobs = { 1 }
    /\ config.child.stdoutLines =
          << <<" ", "E", "T", "C", ":", "\n">>, <<"E", "T", "C", ":", " ", "\n">> >>
    /\ proc[1].state # "none"
    /\ proc[1].unread = <<>>
    /\ stdoutLog.live = << <<NameA, <<"E", "T", "C", ":">> >> >>


\* C19: the program is past the pool block only when every submitted entry
\* has been run to its end, also when result() raised and ended the loop
\* early: a queued entry is never cancelled, and while the exception unwinds
\* the remaining entries run on, but nothing is appended to results and no
\* completion line or summary is printed any more.
C19_PoolRunsEveryJob ==
    [][ /\ pc' \in { "summary", "done", "crashed" } =>
              \A j \in Jobs : jpc'[j] \in { "returned", "raised" }
        /\ \A j \in Jobs :
              jpc[j] = "queued" => jpc'[j] \in { "queued", "reading", "returned", "raised" }
        /\ pc \in { "unwind", "crashed" } =>
              /\ pc' \in { "unwind", "crashed" }
              /\ results' = results
              /\ stdoutLog'.done = stdoutLog.done
              /\ stdoutLog'.summary = stdoutLog.summary
              /\ stdoutLog'.finished = stdoutLog.finished ]_vars

\* main() has ended by the exception; an entry that was never yielded has
\* run to success, its latest copy is on disk, its outcome is nowhere
C19_Witness ==
    /\ pc = "crashed"
    /\ \E j \in Jobs :
          /\ ~Yielded(j)
          /\ outcome[j].status = "success"
          /\ FileExists(files, BackupFile(GetName(scans[j])))
          /\ TimesAppended(j) = 0
          /\ stdoutLog.done[j] = 0

====
